---- MODULE Spec2Model ----
(***************************************************************************)
(* Model of openwisp_utils/admin.py: the admin mixins                      *)
(* TimeReadonlyAdminMixin, ReadOnlyAdmin, AlwaysHasChangedMixin, UUIDAdmin *)
(* and ReceiveUrlAdmin.                                                    *)
(*                                                                         *)
(* One admin class is composed at Init (mixin first, then one admin base), *)
(* with a class-level readonly_fields declaration that is a tuple or a     *)
(* list.  Instances of it are constructed and their hooks are called; the  *)
(* variable ret records the last call, its inputs and what it produced.    *)
(***************************************************************************)
EXTENDS Integers, Sequences, FiniteSets, TLC

VARIABLES
    mixin,          \* TRUE when TimeReadonlyAdminMixin is composed in front of the base
    base,           \* the admin base class of the composed class
    model_fields,   \* names of self.model._meta.fields, in declaration order
    declared,       \* the class attribute readonly_fields: [kind, items]
    declared0,      \* the class attribute as written in the class body
    fields,         \* the field list super().get_fields() yields for the class
    url_conf,       \* the class attributes receive_url_name, _object_arg, _querystring_arg
    insts,          \* the constructed instances: where readonly_fields lives, its value
    db,             \* the persisted state of the administered entities: pk -> value
    db0,            \* the persisted state before any hook was called
    ret             \* the last call: operation, inputs, outcome

vars ==
    <<mixin, base, model_fields, declared, declared0, fields, url_conf, insts, db, db0, ret>>

config == <<mixin, base, model_fields, declared0, fields, url_conf, db0>>

----------------------------------------------------------------------------
(* Bounds of the model *)

MaxLen == 3         \* longest field list handed to _process_fields
MaxDecl == 1        \* longest readonly_fields declaration in the class body
MaxInstances == 2   \* number of constructions of the composed class

----------------------------------------------------------------------------
(* Python values *)

SeqsUpTo(S, n) == UNION {[1..k -> S] : k \in 0..n}

Range(s) == {s[i] : i \in 1..Len(s)}

Count(x, s) == Cardinality({i \in 1..Len(s) : s[i] = x})

Tuple(items) == [kind |-> "tuple", items |-> items]

List(items) == [kind |-> "list", items |-> items]

NoValue == [kind |-> "none", items |-> <<>>]

Bases == {"ModelAdmin", "ReadOnlyAdmin", "UUIDAdmin", "ReceiveUrlAdmin"}

FieldNames == {"uuid", "name", "created"}

DeclNames == {"uuid", "name"}

Declarations ==
    {Tuple(s) : s \in SeqsUpTo(DeclNames, MaxDecl)}
        \cup {List(s) : s \in SeqsUpTo(DeclNames, MaxDecl)}

DefaultModel == <<"id", "name", "created", "modified">>

Models == {<<"id", "name">>, DefaultModel}

PKs == {1, 2}

DefaultDB == [p \in PKs |-> "v0"]

DBs == {DefaultDB, [p \in PKs |-> IF p = 1 THEN "v1" ELSE "absent"]}

----------------------------------------------------------------------------
(* Construction *)

\* variant: only `created` is added
TimeFieldsOnlyCreated == <<"created">>

\* the tuple added by TimeReadonlyAdminMixin.__init__
TimeFields == <<"created", "modified">>

\* self.readonly_fields += (...): before the statement the instance has no
\* attribute of its own, so the class attribute is loaded.  A list is
\* extended in place (the class attribute changes) and the instance attribute
\* is bound to that same list; a tuple yields a new tuple, bound to the
\* instance alone.  st = [declared, inst].
TimeReadonlyAdminMixin_init(st) ==
    IF st.declared.kind = "list"
    THEN [declared |-> List(st.declared.items \o TimeFields),
          inst     |-> [where |-> "class", val |-> NoValue]]
    ELSE [declared |-> st.declared,
          inst     |-> [where |-> "instance",
                        val   |-> Tuple(st.declared.items \o TimeFields)]]

\* variant: the entity's field names are appended to what is already there
ReadOnlyAdmin_init_extend(st, mf) ==
    [declared |-> st.declared,
     inst     |-> [where |-> "instance",
                   val   |-> List((IF st.inst.where = "class"
                                   THEN st.declared.items
                                   ELSE st.inst.val.items) \o mf)]]

\* ReadOnlyAdmin.__init__: after the base constructor, the instance attribute
\* is rebound to a fresh list of the entity's field names.
ReadOnlyAdmin_init(st, mf) ==
    [declared |-> st.declared,
     inst     |-> [where |-> "instance", val |-> List(mf)]]

\* The constructor chain of the composed class, in method resolution order:
\* TimeReadonlyAdminMixin.__init__ (when composed), then the base's.
\* ModelAdmin.__init__ leaves readonly_fields alone.
Construct_chain(d, mx, b, mf) ==
    LET s0 == [declared |-> d, inst |-> [where |-> "class", val |-> NoValue]]
        s1 == IF mx THEN TimeReadonlyAdminMixin_init(s0) ELSE s0
    IN  IF b = "ReadOnlyAdmin" THEN ReadOnlyAdmin_init(s1, mf) ELSE s1

\* attribute lookup self.readonly_fields, given the class attribute d
Lookup(inst, d) == IF inst.where = "class" THEN d ELSE inst.val

Readonly(i) == Lookup(insts[i], declared)

Construct ==
    /\ Len(insts) < MaxInstances
    /\ LET s == Construct_chain(declared, mixin, base, model_fields)
       IN  /\ declared' = s.declared
           /\ insts' = Append(insts, [where   |-> s.inst.where,
                                      val     |-> s.inst.val,
                                      at_init |-> Lookup(s.inst, s.declared).items])
    /\ ret' = [op |-> "__init__"]
    /\ UNCHANGED <<config, db>>

----------------------------------------------------------------------------
(* ReadOnlyAdmin *)

Requests == [user_has_perm : BOOLEAN]

Objs == [pk : PKs, val : {"v0", "v2"}]

HasInstance(b) == base = b /\ Len(insts) > 0

\* ReadOnlyAdmin.has_add_permission
has_add_permission(request) == FALSE

\* ReadOnlyAdmin.has_delete_permission
has_delete_permission(request, obj) == FALSE

\* what ModelAdmin.save_model does: obj.save()
ModelAdmin_save_model(d, obj) ==
    [db |-> [d EXCEPT ![obj.pk] = obj.val], raised |-> FALSE]

\* ReadOnlyAdmin.save_model: pass
save_model(d, obj) == [db |-> d, raised |-> FALSE]

\* ReadOnlyAdmin.delete_model: pass
delete_model(d, obj) == [db |-> d, raised |-> FALSE]

\* ReadOnlyAdmin.save_related: pass
save_related(d, formsets) == [db |-> d, raised |-> FALSE]

HasAddPermission ==
    /\ HasInstance("ReadOnlyAdmin")
    /\ \E request \in Requests :
         ret' = [op |-> "has_add_permission", request |-> request,
                 value |-> has_add_permission(request)]
    /\ UNCHANGED <<config, declared, insts, db>>

HasDeletePermission ==
    /\ HasInstance("ReadOnlyAdmin")
    /\ \E request \in Requests, obj \in Objs :
         ret' = [op |-> "has_delete_permission", request |-> request, obj |-> obj,
                 value |-> has_delete_permission(request, obj)]
    /\ UNCHANGED <<config, declared, insts, db>>

SaveModel ==
    /\ HasInstance("ReadOnlyAdmin")
    /\ \E obj \in Objs, change \in BOOLEAN :
         LET r == save_model(db, obj)
         IN  /\ db' = r.db
             /\ ret' = [op |-> "save_model", obj |-> obj, change |-> change,
                        raised |-> r.raised]
    /\ UNCHANGED <<config, declared, insts>>

DeleteModel ==
    /\ HasInstance("ReadOnlyAdmin")
    /\ \E obj \in Objs :
         LET r == delete_model(db, obj)
         IN  /\ db' = r.db
             /\ ret' = [op |-> "delete_model", obj |-> obj, raised |-> r.raised]
    /\ UNCHANGED <<config, declared, insts>>

SaveRelated ==
    /\ HasInstance("ReadOnlyAdmin")
    /\ \E formsets \in SUBSET Objs, change \in BOOLEAN :
         /\ Cardinality(formsets) <= 1
         /\ LET r == save_related(db, formsets)
            IN  /\ db' = r.db
                /\ ret' = [op |-> "save_related", formsets |-> formsets,
                           change |-> change, raised |-> r.raised]
    /\ UNCHANGED <<config, declared, insts>>

\* extra_context: None, or a dict; a dict is a function from its keys
EmptyDict == [k \in {} |-> FALSE]

NoContext == [given |-> FALSE, dict |-> EmptyDict]

Dict(f) == [given |-> TRUE, dict |-> f]

ShowKeys == {"show_save", "show_save_and_continue"}

OtherKeys == {"title"}

ExtraContexts ==
    {NoContext} \cup
    {Dict(f @@ g) : f \in UNION {[S -> BOOLEAN] : S \in SUBSET ShowKeys},
                    g \in UNION {[S -> {"Edit", "View"}] : S \in SUBSET OtherKeys}}

\* Python truth value of extra_context: None and the empty dict are false
Truthy(x) == x.given /\ DOMAIN x.dict # {}

\* variant: the two keys are set only when the caller did not supply them
change_view_setdefault(extra_context) ==
    LET ec == IF Truthy(extra_context) THEN extra_context.dict ELSE EmptyDict
    IN  [k \in DOMAIN ec \cup ShowKeys |-> IF k \in DOMAIN ec THEN ec[k] ELSE FALSE]

\* ReadOnlyAdmin.change_view: the extra_context handed to super().change_view
change_view(extra_context) ==
    LET ec == IF Truthy(extra_context) THEN extra_context.dict ELSE EmptyDict
    IN  [k \in DOMAIN ec \cup ShowKeys |-> IF k \in ShowKeys THEN FALSE ELSE ec[k]]

ChangeView ==
    /\ HasInstance("ReadOnlyAdmin")
    /\ \E extra_context \in ExtraContexts :
         ret' = [op |-> "change_view", extra_context |-> extra_context,
                 context |-> change_view(extra_context)]
    /\ UNCHANGED <<config, declared, insts, db>>

----------------------------------------------------------------------------
(* AlwaysHasChangedMixin *)

FormValues == {"default", "edited"}

\* a bound form: the instance's _state.adding, the initial and the submitted value
Forms == [adding : BOOLEAN, initial : FormValues, data : FormValues]

\* super().has_changed(): the form's undecorated predicate, true when the
\* submitted data differ from the initial data
BaseForm_has_changed(form) == form.data # form.initial

\* variant: the test of _state.adding inverted
has_changed_not_adding(form) ==
    IF form.adding THEN BaseForm_has_changed(form) ELSE TRUE

\* AlwaysHasChangedMixin.has_changed
has_changed(form) ==
    IF form.adding THEN TRUE ELSE BaseForm_has_changed(form)

\* the form of the plain ModelAdmin composition carries the mixin
HasChanged ==
    /\ base = "ModelAdmin"
    /\ \E form \in Forms :
         ret' = [op |-> "has_changed", form |-> form, value |-> has_changed(form)]
    /\ UNCHANGED <<config, declared, insts, db>>

----------------------------------------------------------------------------
(* UUIDAdmin *)

\* s.index(x): position of the first occurrence
Index(s, x) == CHOOSE i \in 1..Len(s) : s[i] = x /\ \A j \in 1..(i - 1) : s[j] # x

\* list.remove(x): drops the first occurrence of x (x is known to be in s)
Remove(s, x) ==
    LET i == Index(s, x) IN SubSeq(s, 1, i - 1) \o SubSeq(s, i + 1, Len(s))

\* variant: list.append(x)
InsertLast(s, x) == s \o <<x>>

\* list.insert(0, x)
Insert0(s, x) == <<x>> \o s

\* for field in readonly: if field in fields: fields.remove(field)
RECURSIVE RemoveReadonly(_, _)
RemoveReadonly(flds, readonly) ==
    IF readonly = <<>> THEN flds
    ELSE LET field == Head(readonly)
         IN  RemoveReadonly(IF field \in Range(flds) THEN Remove(flds, field)
                            ELSE flds,
                            Tail(readonly))

\* UUIDAdmin._process_fields(fields, request, obj) with self.readonly_fields =
\* readonly; has_obj is the truth value of obj.  fields = list(fields) rebinds
\* the local name to a copy, so the argument keeps its value (fields_after).
UUIDAdmin_process_fields(readonly, flds, has_obj) ==
    LET copy == flds.items
        done == IF has_obj
                THEN IF "uuid" \in Range(copy)
                     THEN Insert0(Remove(copy, "uuid"), "uuid")
                     ELSE copy
                ELSE RemoveReadonly(copy, readonly.items)
    IN  [value |-> Tuple(done), fields_after |-> flds]

FieldLists ==
    {Tuple(s) : s \in SeqsUpTo(FieldNames, MaxLen)}
        \cup {List(s) : s \in SeqsUpTo(FieldNames, MaxLen)}

\* UUIDAdmin.get_fields: super().get_fields(request, obj) is the class's
\* declared fields or its form's fields
GetFields ==
    /\ HasInstance("UUIDAdmin")
    /\ \E i \in 1..Len(insts), has_obj \in BOOLEAN :
         LET r == UUIDAdmin_process_fields(Readonly(i), fields, has_obj)
         IN  ret' = [op |-> "get_fields", readonly |-> Readonly(i),
                     fields |-> fields, has_obj |-> has_obj,
                     value |-> r.value, fields_after |-> r.fields_after]
    /\ UNCHANGED <<config, declared, insts, db>>

\* UUIDAdmin.get_readonly_fields: super().get_readonly_fields(request, obj)
\* is self.readonly_fields
GetReadonlyFields ==
    /\ HasInstance("UUIDAdmin")
    /\ \E i \in 1..Len(insts), has_obj \in BOOLEAN :
         LET r == UUIDAdmin_process_fields(Readonly(i), Readonly(i), has_obj)
         IN  ret' = [op |-> "get_readonly_fields", readonly |-> Readonly(i),
                     fields |-> Readonly(i), has_obj |-> has_obj,
                     value |-> r.value, fields_after |-> r.fields_after]
    /\ UNCHANGED <<config, declared, insts, db>>

----------------------------------------------------------------------------
(* ReceiveUrlAdmin *)

\* an optional string: None, or a string (possibly empty)
NoneStr == [given |-> FALSE, s |-> ""]

Str(x) == [given |-> TRUE, s |-> x]

\* truth value of an optional string: None and '' are false
TruthyStr(x) == x.given /\ x.s # ""

\* attribute values: integers and strings
IntV(n) == [t |-> "int", n |-> n, s |-> ""]

StrV(x) == [t |-> "str", n |-> 0, s |-> x]

\* str(value), as '{}'.format applies it
PyStr(x) == IF x.t = "int" THEN ToString(x.n) ELSE x.s

\* the class body of ReceiveUrlAdmin
DefaultUrlConf ==
    [name |-> NoneStr, object_arg |-> Str("pk"), querystring_arg |-> Str("key")]

UrlArgs == {NoneStr, Str(""), Str("pk"), Str("key")}

UrlConfs ==
    [name : {NoneStr, Str("foo"), Str("bar")}, object_arg : UrlArgs,
     querystring_arg : UrlArgs]

\* the objects handed to receive_url: attribute name -> value; some lack an attribute
UrlObjs ==
    { ("pk" :> IntV(5)) @@ ("key" :> StrV("abc")),
      ("pk" :> IntV(7)) @@ ("key" :> StrV("xyz")),
      ("pk" :> IntV(5)),
      ("key" :> StrV("abc")) }

\* django.urls.reverse(name, kwargs=kwargs): the URL of the named route with
\* these arguments, kept as a term
reverse(name, kwargs) == [route |-> name, kwargs |-> kwargs]

NoUrl == [url |-> reverse("", EmptyDict), suffix |-> <<>>]

Getattr(a) == [ev |-> "getattr", name |-> a]

Reverse(n) == [ev |-> "reverse", name |-> n]

Raise(exc, log) == [raised |-> exc, value |-> NoUrl, log |-> log]

Return(v, log) == [raised |-> "none", value |-> v, log |-> log]

\* variant: the value of the query parameter left out
format_url_without_value(url, q, val) ==
    [url |-> url, suffix |-> <<"?", q, "=">>]

\* '{0}?{1}={2}'.format(url, q, val)
format_url(url, q, val) == [url |-> url, suffix |-> <<"?", q, "=", PyStr(val)>>]

\* receive_url after the check of receive_url_name; log lists the attribute
\* reads and the route resolution in the order they happen
receive_url_body(conf, obj) ==
    LET oa == conf.object_arg
        qa == conf.querystring_arg
    IN  IF TruthyStr(oa) /\ oa.s \notin DOMAIN obj
        THEN Raise("AttributeError", <<Getattr(oa.s)>>)
        ELSE LET reverse_kwargs == IF TruthyStr(oa) THEN (oa.s :> obj[oa.s])
                                   ELSE EmptyDict
                 log1 == (IF TruthyStr(oa) THEN <<Getattr(oa.s)>> ELSE <<>>)
                             \o <<Reverse(conf.name.s)>>
                 url == reverse(conf.name.s, reverse_kwargs)
             IN  IF TruthyStr(qa)
                 THEN IF qa.s \notin DOMAIN obj
                      THEN Raise("AttributeError", log1 \o <<Getattr(qa.s)>>)
                      ELSE Return(format_url(url, qa.s, obj[qa.s]),
                                  log1 \o <<Getattr(qa.s)>>)
                 ELSE Return([url |-> url, suffix |-> <<>>], log1)

\* variant: receive_url_name checked after the URL was built
receive_url_late_check(conf, obj) ==
    LET r == receive_url_body(conf, obj)
    IN  IF ~conf.name.given THEN Raise("ValueError", r.log) ELSE r

\* ReceiveUrlAdmin.receive_url
receive_url(conf, obj) ==
    IF ~conf.name.given
    THEN Raise("ValueError", <<>>)
    ELSE receive_url_body(conf, obj)

ReceiveUrl ==
    /\ HasInstance("ReceiveUrlAdmin")
    /\ \E obj \in UrlObjs :
         LET r == receive_url(url_conf, obj)
         IN  ret' = [op |-> "receive_url", conf |-> url_conf, obj |-> obj,
                     raised |-> r.raised, value |-> r.value, log |-> r.log]
    /\ UNCHANGED <<config, declared, insts, db>>

----------------------------------------------------------------------------

Init ==
    /\ mixin \in BOOLEAN
    /\ base \in Bases
    /\ model_fields \in (IF base = "ReadOnlyAdmin" THEN Models ELSE {DefaultModel})
    /\ declared \in Declarations
    /\ declared0 = declared
    /\ fields \in (IF base = "UUIDAdmin" THEN FieldLists ELSE {Tuple(<<>>)})
    /\ url_conf \in (IF base = "ReceiveUrlAdmin" THEN UrlConfs ELSE {DefaultUrlConf})
    /\ insts = <<>>
    /\ db \in (IF base = "ReadOnlyAdmin" THEN DBs ELSE {DefaultDB})
    /\ db0 = db
    /\ ret = [op |-> "none"]

Next ==
    \/ Construct
    \/ HasAddPermission
    \/ HasDeletePermission
    \/ SaveModel
    \/ DeleteModel
    \/ SaveRelated
    \/ ChangeView
    \/ HasChanged
    \/ GetFields
    \/ GetReadonlyFields
    \/ ReceiveUrl

Spec == Init /\ [][Next]_vars

----------------------------------------------------------------------------
(* The properties *)

AddOps == {"get_fields", "get_readonly_fields"}

\* C1: for an entity administered by ReadOnlyAdmin, after any sequence of
\* calls to has_add_permission, has_delete_permission, save_model,
\* delete_model and save_related, both permission checks have returned
\* false, no hook has raised, and the persisted state is the state before.
C1_ReadOnlyNeverMutates ==
    /\ db = db0
    /\ ret.op \in {"has_add_permission", "has_delete_permission"} => ret.value = FALSE
    /\ ret.op \in {"save_model", "delete_model", "save_related"} => ret.raised = FALSE

\* a save of an object whose in-memory value differs from the stored one
C1_Witness ==
    /\ ret.op = "save_model"
    /\ db0[ret.obj.pk] # ret.obj.val

\* C2: creating a new object (no obj), for every field list and every
\* readonly_fields, no read-only field appears in what _process_fields
\* returns (through get_fields and get_readonly_fields).
C2_NoReadonlyFieldOnAdd ==
    (ret.op \in AddOps /\ ~ret.has_obj)
        => Range(ret.value.items) \cap Range(ret.readonly.items) = {}

\* C3: editing an existing object, when uuid is in the field list the result
\* has uuid at index 0 and the rest is the input with one uuid entry removed
\* (every other name keeps count and relative order); the input is not
\* modified; when uuid is absent the result has the input's items.
C3_UuidFirstOnChange ==
    (ret.op \in AddOps /\ ret.has_obj) =>
        LET in  == ret.fields.items
            out == ret.value.items
            NotUuid(f) == f # "uuid"
        IN  /\ ret.fields_after = ret.fields
            /\ ret.value.kind = "tuple"
            /\ IF "uuid" \in Range(in)
               THEN /\ out[1] = "uuid"
                    /\ \E i \in 1..Len(in) :
                         /\ in[i] = "uuid"
                         /\ Tail(out) = SubSeq(in, 1, i - 1) \o SubSeq(in, i + 1, Len(in))
                    /\ SelectSeq(out, NotUuid) = SelectSeq(in, NotUuid)
                    /\ \A f \in FieldNames : Count(f, out) = Count(f, in)
               ELSE out = in

\* uuid last in a list of three distinct names
C3_Witness ==
    /\ ret.op = "get_fields"
    /\ ret.has_obj
    /\ ret.fields = List(<<"name", "created", "uuid">>)
    /\ ret.value = Tuple(<<"uuid", "name", "created">>)

\* C4: with receive_url_name set, receive_url(obj) resolves the route with
\* the single keyword argument {object_arg: obj.<object_arg>} when object_arg
\* is set and with no arguments otherwise, and returns that URL followed by
\* '?<querystring_arg>=<obj.<querystring_arg>>' when querystring_arg is set
\* and the bare URL otherwise; name='foo', object_arg='pk',
\* querystring_arg='key', pk=5, key='abc' gives resolve('foo', pk=5) + '?key=abc'.
C4_ReceiveUrlBuilt ==
    (ret.op = "receive_url" /\ ret.conf.name.given) =>
        LET oa == ret.conf.object_arg
            qa == ret.conf.querystring_arg
            obj == ret.obj
            has_attrs == /\ TruthyStr(oa) => oa.s \in DOMAIN obj
                         /\ TruthyStr(qa) => qa.s \in DOMAIN obj
        IN  /\ has_attrs =>
                /\ ret.raised = "none"
                /\ ret.value.url.route = ret.conf.name.s
                /\ ret.value.url.kwargs =
                       (IF TruthyStr(oa) THEN [k \in {oa.s} |-> obj[oa.s]] ELSE EmptyDict)
                /\ ret.value.suffix =
                       (IF TruthyStr(qa) THEN <<"?", qa.s, "=", PyStr(obj[qa.s])>>
                        ELSE <<>>)
                /\ Reverse(ret.conf.name.s) \in Range(ret.log)
            /\ (/\ ret.conf = [name |-> Str("foo"), object_arg |-> Str("pk"),
                               querystring_arg |-> Str("key")]
                /\ obj = ("pk" :> IntV(5)) @@ ("key" :> StrV("abc")))
                  => ret.value = [url    |-> reverse("foo", ("pk" :> IntV(5))),
                                  suffix |-> <<"?", "key", "=", "abc">>]
            /\ (TruthyStr(qa) /\ qa.s = "pk" /\ "pk" \in DOMAIN obj /\ has_attrs
                  /\ obj["pk"] = IntV(7))
                  => ret.value.suffix = <<"?", "pk", "=", "7">>

\* the example of the claim
C4_Witness ==
    /\ ret.op = "receive_url"
    /\ ret.conf = [name |-> Str("foo"), object_arg |-> Str("pk"),
                   querystring_arg |-> Str("key")]
    /\ ret.obj = ("pk" :> IntV(5)) @@ ("key" :> StrV("abc"))
    /\ ret.raised = "none"

\* C5: with receive_url_name None, receive_url(obj) raises the configuration
\* error for every object and every setting of the two arguments, before any
\* route resolution and before any attribute read; no URL is returned.
C5_UnsetNameRaisesFirst ==
    (ret.op = "receive_url" /\ ~ret.conf.name.given) =>
        /\ ret.raised = "ValueError"
        /\ ret.log = <<>>
        /\ ret.value = NoUrl

\* the class defaults: name None, both arguments set
C5_Witness ==
    /\ ret.op = "receive_url"
    /\ ret.conf = DefaultUrlConf
    /\ ret.obj = ("pk" :> IntV(5)) @@ ("key" :> StrV("abc"))

\* C6 as stated: with TimeReadonlyAdminMixin composed into any admin class,
\* created and modified are in every constructed instance's readonly_fields.
C6_TimeFieldsAlwaysReadonly ==
    mixin => \A i \in 1..Len(insts) : {"created", "modified"} \subseteq Range(Readonly(i).items)

\* C6 amended: the same, provided that when the class also derives from
\* ReadOnlyAdmin the administered entity defines fields created and modified.
C6_TimeFieldsReadonlyWhenEntityHasThem ==
    (mixin /\ (base = "ReadOnlyAdmin" => {"created", "modified"} \subseteq Range(model_fields)))
        => \A i \in 1..Len(insts) :
             {"created", "modified"} \subseteq Range(Readonly(i).items)

\* the mixin in front of ReadOnlyAdmin, constructed, the entity having the fields
C6_Witness ==
    /\ mixin
    /\ base = "ReadOnlyAdmin"
    /\ Len(insts) >= 1
    /\ {"created", "modified"} \subseteq Range(model_fields)
    /\ declared0.items # <<>>

\* C7: has_changed returns true for a form bound to an unsaved instance
\* whatever was submitted and whatever the undecorated predicate returns, and
\* for a saved instance exactly what the undecorated predicate returns.
C7_AlwaysChangedWhenAdding ==
    ret.op = "has_changed" =>
        IF ret.form.adding
        THEN ret.value = TRUE
        ELSE ret.value = (ret.form.data # ret.form.initial)

\* an unsaved instance whose form was submitted unchanged
C7_Witness ==
    /\ ret.op = "has_changed"
    /\ ret.form.adding
    /\ ret.form.data = ret.form.initial

\* C8: after construction a ReadOnlyAdmin instance's readonly_fields is
\* exactly the entity's field names in declaration order, whatever the class
\* declared and whatever other mixins added during construction.
C8_ReadOnlyAllEntityFields ==
    base = "ReadOnlyAdmin" =>
        \A i \in 1..Len(insts) :
            /\ Readonly(i).items = model_fields
            /\ insts[i].at_init = model_fields

\* the time mixin and a declaration, both overridden
C8_Witness ==
    /\ base = "ReadOnlyAdmin"
    /\ mixin
    /\ declared0.items # <<>>
    /\ Len(insts) >= 1

\* C9: for every extra_context given to change_view (absent, empty, or with
\* show_save / show_save_and_continue true) the context handed to the base
\* view has both false and every other supplied key with its value.
C9_SaveButtonsHidden ==
    ret.op = "change_view" =>
        /\ ShowKeys \subseteq DOMAIN ret.context
        /\ \A k \in ShowKeys : ret.context[k] = FALSE
        /\ ret.extra_context.given =>
             \A k \in DOMAIN ret.extra_context.dict \ ShowKeys :
                 /\ k \in DOMAIN ret.context
                 /\ ret.context[k] = ret.extra_context.dict[k]

\* the caller asks for the save buttons and supplies a title
C9_Witness ==
    /\ ret.op = "change_view"
    /\ ret.extra_context.given
    /\ DOMAIN ret.extra_context.dict = ShowKeys \cup OtherKeys
    /\ ret.extra_context.dict["show_save"] = TRUE
    /\ ret.extra_context.dict["show_save_and_continue"] = TRUE

\* C10: constructing instances of a class composed with the time mixin any
\* number of times shares no mutable state: the class-level readonly_fields
\* (tuple or list) is unchanged by each construction, and the n-th instance
\* has the read-only list of the first, with created and modified each added
\* exactly once.
C10_ConstructionSharesNothing ==
    mixin =>
        /\ declared = declared0
        /\ \A i \in 1..Len(insts) :
             /\ insts[i].at_init = insts[1].at_init
             /\ base # "ReadOnlyAdmin" =>
                  \A f \in {"created", "modified"} :
                      Count(f, insts[i].at_init) = Count(f, declared0.items) + 1

====
